---- MODULE Spec2Model ----
(***************************************************************************)
(* A model of FlooProtocol (src/protocols/floo_proto.py): the poll-driven  *)
(* transport with its socket lifecycle, staged non-blocking connect,       *)
(* deferred TLS handshake, newline framing, outbound queue and reconnect   *)
(* backoff.                                                                *)
(*                                                                         *)
(* Every method is an operator from the object's state (a record holding   *)
(* the instance attributes, the timer facility and what the transport has  *)
(* shown to the outside) to the state after the call, so that a method     *)
(* that calls another is the composition the code is.  An action applies   *)
(* one host call or one timer firing to the current state.                 *)
(***************************************************************************)
EXTENDS Integers, Sequences, FiniteSets, Bags, TLC

VARIABLES
    secure,             \* constructor argument, kept by BaseProtocol
    ssl,                \* whether the ssl module could be imported (module level)
    connected,
    _needs_handshake,
    _sock,              \* None, "plain" (socket.socket) or "ssl" (wrapped socket)
    _q,                 \* deque of frames; a frame is a sequence of characters
    _buf,               \* inbound bytes
    _reconnect_delay,
    _retries,
    _empty_reads,
    _reconnect_timeout, \* None or the handle of a timer
    _port,
    _secure,
    _proc,
    proxy,
    retries,            \* the attribute self.retries (no underscore): <<>> until set
    reconnect_delay,    \* the attribute self.reconnect_delay: <<>> until set
    _empty_selects,     \* <<>> until set
    timers,             \* utils.set_timeout's pending callbacks
    notices,            \* number of 'giving up' editor.error_message calls
    scheduled,          \* delays of the connect timers reconnect() has scheduled
    stopped,            \* stop() has run and the host has not called connect() since
    \* What the last call did, as its caller sees it:
    op,                 \* the method the host or the timer facility called
    events,             \* what it called emit() with, in order
    sent,               \* the frames it gave to sendall, in order
    ret,                \* what it returned: <<>> for None, <<v>> for v
    exc,                \* the exception it let escape, or None
    msgs,               \* what it logged and told the editor, in order
    fds,                \* fd_set: the readable, writeable and errorable lists
    \* The peer and the host around the transport:
    wire,               \* bytes the peer has yet to deliver
    fed,                \* bytes handed to _handle so far
    log,                \* every event emitted so far
    queued,             \* messages put since the connection was established
    handed              \* frames given to sendall since then

vars == <<secure, ssl, connected, _needs_handshake, _sock, _q, _buf,
          _reconnect_delay, _retries, _empty_reads, _reconnect_timeout, _port,
          _secure, _proc, proxy, retries, reconnect_delay, _empty_selects,
          timers, notices, scheduled, stopped, op, events, sent, ret, exc,
          msgs, fds, wire, fed, log, queued, handed>>

harness == <<wire, fed, log, queued, handed>>

(***************************************************************************)
(* Program constants.                                                      *)
(***************************************************************************)
MAX_RETRIES == 20
INITIAL_RECONNECT_DELAY == 500
MAX_RECONNECT_DELAY == 10000
MAX_CONNECT_ATTEMPTS == 500
CONNECT_POLL_MS == 20
EMPTY_READ_BUDGET_MS == 2000
\* G.TICK_TIME, the host's poll interval (floo.common.shared, not in src/).
TICK_TIME == 2000

(***************************************************************************)
(* Bounds of the exploration.                                              *)
(***************************************************************************)
MaxQueue == 1        \* frames in the outbound queue
MaxBuf == 2          \* bytes left in the inbound buffer between calls
MaxPolls == 1        \* staged connect polls followed per attempt
MaxTimers == 2       \* callbacks pending in the timer facility
MaxReconnects == 2   \* reconnect() calls followed from a fresh transport
MaxPuts == 3         \* messages put on one connection
MaxFrames == 3       \* frames the peer writes on one connection
MaxHistory == 5      \* puts, connections and sends followed in the history
MaxPending == 1      \* callbacks pending while the retry budget is used up
ExtraReconnects == 1 \* reconnect() calls followed after the transport gave up

None == "None"
NL == "nl"

Min(a, b) == IF a < b THEN a ELSE b
Max(a, b) == IF a > b THEN a ELSE b

\* The object and its surroundings as one record, as a call finds them: what
\* the previous call emitted, sent, returned and raised is gone.
Self ==
    [secure |-> secure, ssl |-> ssl, connected |-> connected,
     _needs_handshake |-> _needs_handshake, _sock |-> _sock, _q |-> _q,
     _buf |-> _buf, _reconnect_delay |-> _reconnect_delay,
     _retries |-> _retries, _empty_reads |-> _empty_reads,
     _reconnect_timeout |-> _reconnect_timeout, _port |-> _port,
     _secure |-> _secure, _proc |-> _proc, proxy |-> proxy,
     retries |-> retries, reconnect_delay |-> reconnect_delay,
     _empty_selects |-> _empty_selects, timers |-> timers,
     notices |-> notices, scheduled |-> scheduled, stopped |-> stopped,
     events |-> <<>>, sent |-> <<>>, ret |-> <<>>, exc |-> None,
     msgs |-> <<>>, fds |-> <<>>]

\* The call leaves the object as r.
Apply(r) ==
    /\ secure' = r.secure /\ ssl' = r.ssl /\ connected' = r.connected
    /\ _needs_handshake' = r._needs_handshake /\ _sock' = r._sock
    /\ _q' = r._q /\ _buf' = r._buf
    /\ _reconnect_delay' = r._reconnect_delay /\ _retries' = r._retries
    /\ _empty_reads' = r._empty_reads
    /\ _reconnect_timeout' = r._reconnect_timeout /\ _port' = r._port
    /\ _secure' = r._secure /\ _proc' = r._proc /\ proxy' = r.proxy
    /\ retries' = r.retries /\ reconnect_delay' = r.reconnect_delay
    /\ _empty_selects' = r._empty_selects /\ timers' = r.timers
    /\ notices' = r.notices /\ scheduled' = r.scheduled
    /\ stopped' = r.stopped /\ events' = r.events /\ sent' = r.sent
    /\ ret' = r.ret /\ exc' = r.exc /\ msgs' = r.msgs /\ fds' = r.fds

(***************************************************************************)
(* FlooProtocol.__init__                                                   *)
(***************************************************************************)
__init__(sec, haveSsl) ==
    LET viaProxy == sec /\ ~haveSsl IN
    [secure |-> sec, ssl |-> haveSsl, connected |-> FALSE,
     _needs_handshake |-> sec, _sock |-> None, _q |-> <<>>, _buf |-> <<>>,
     _reconnect_delay |-> INITIAL_RECONNECT_DELAY, _retries |-> MAX_RETRIES,
     _empty_reads |-> 0, _reconnect_timeout |-> None,
     _port |-> IF viaProxy THEN None ELSE "port",
     _secure |-> IF viaProxy THEN FALSE ELSE sec,
     _proc |-> None, proxy |-> viaProxy,
     retries |-> <<>>, reconnect_delay |-> <<>>, _empty_selects |-> <<>>,
     timers |-> EmptyBag, notices |-> 0, scheduled |-> <<>>, stopped |-> FALSE,
     events |-> <<>>, sent |-> <<>>, ret |-> <<>>, exc |-> None,
     msgs |-> <<>>, fds |-> <<>>]

(***************************************************************************)
(* utils.set_timeout / utils.cancel_timeout: the deferred-callback         *)
(* facility.  The pending callbacks are a bag of [func, delay, attempts,   *)
(* held]; held marks the callback whose handle self._reconnect_timeout     *)
(* holds.  The handle set_timeout returns is never null.                   *)
(***************************************************************************)
Timer(func, delay, attempts, held) ==
    [func |-> func, delay |-> delay, attempts |-> attempts, held |-> held]

set_timeout(s, func, delay, attempts) ==
    [s EXCEPT !.timers = @ (+) SetToBag({Timer(func, delay, attempts, FALSE)})]

\* cancel_timeout(self._reconnect_timeout): nothing to cancel for None.
cancel_timeout(s) ==
    IF s._reconnect_timeout = None THEN s
    ELSE LET keep == {t \in BagToSet(s.timers) : ~t.held} IN
         [s EXCEPT !.timers = [t \in keep |-> s.timers[t]]]

\* self._reconnect_timeout = handle: a callback whose handle was held before
\* is pending still, with no handle to it.
Unheld(timer) == [timer EXCEPT !.held = FALSE]

assign_reconnect_timeout(s, handle) ==
    [s EXCEPT !._reconnect_timeout = handle,
              !.timers = BagOfAll(Unheld, @)]

\* msg.log, msg.error, msg.debug and the editor's messages: what a call says.
Log(s, line) == [s EXCEPT !.msgs = Append(@, line)]

(***************************************************************************)
(* FlooProtocol.cleanup                                                    *)
(***************************************************************************)
cleanup(s) ==
    [s EXCEPT !._proc = IF @ = None THEN None ELSE "killed",
              !._buf = <<>>,
              !._sock = None,
              !._needs_handshake = s._secure,
              !.connected = FALSE]

(***************************************************************************)
(* FlooProtocol.reconnect                                                  *)
(***************************************************************************)
\* reconnect() that still schedules when no retry is left.
reconnect_one_more(s) ==
    IF s._reconnect_timeout # None
    THEN s
    ELSE
        LET c == cleanup(s)
            delay == Min(MAX_RECONNECT_DELAY, (3 * c._reconnect_delay) \div 2)
            d == [c EXCEPT !._reconnect_delay = delay]
            e == IF d._retries >= 0
                 THEN LET h == assign_reconnect_timeout(
                                   Log(d, "Reconnecting"), "timer") IN
                      [h EXCEPT !.timers =
                                    @ (+) SetToBag({Timer("connect", delay, 0, TRUE)}),
                                !.scheduled = Append(@, delay)]
                 ELSE d
        IN  [e EXCEPT !._retries = @ - 1]

\* reconnect() with the delay doubled and never capped.
reconnect_doubling(s) ==
    IF s._reconnect_timeout # None
    THEN s
    ELSE
        LET c == cleanup(s)
            delay == 2 * c._reconnect_delay
            d == [c EXCEPT !._reconnect_delay = delay]
            e == IF d._retries > 0
                 THEN LET h == assign_reconnect_timeout(
                                   Log(d, "Reconnecting"), "timer") IN
                      [h EXCEPT !.timers =
                                    @ (+) SetToBag({Timer("connect", delay, 0, TRUE)}),
                                !.scheduled = Append(@, delay)]
                 ELSE IF d._retries = 0
                      THEN [Log(d, "Giving up") EXCEPT !.notices = @ + 1]
                      ELSE d
        IN  [e EXCEPT !._retries = @ - 1]

\* reconnect() without its "already scheduled" test.
reconnect_unguarded(s) ==
    LET c == cleanup(s)
        delay == Min(MAX_RECONNECT_DELAY, (3 * c._reconnect_delay) \div 2)
        d == [c EXCEPT !._reconnect_delay = delay]
        e == IF d._retries > 0
             THEN LET h == assign_reconnect_timeout(
                               Log(d, "Reconnecting"), "timer") IN
                  [h EXCEPT !.timers =
                                @ (+) SetToBag({Timer("connect", delay, 0, TRUE)}),
                            !.scheduled = Append(@, delay)]
             ELSE IF d._retries = 0
                  THEN [Log(d, "Giving up") EXCEPT !.notices = @ + 1]
                  ELSE d
    IN  [e EXCEPT !._retries = @ - 1]

reconnect(s) ==
    IF s._reconnect_timeout # None
    THEN s
    ELSE
        LET c == cleanup(s)
            delay == Min(MAX_RECONNECT_DELAY, (3 * c._reconnect_delay) \div 2)
            d == [c EXCEPT !._reconnect_delay = delay]
            e == IF d._retries > 0
                 THEN LET h == assign_reconnect_timeout(
                                   Log(d, "Reconnecting"), "timer") IN
                      [h EXCEPT !.timers =
                                    @ (+) SetToBag({Timer("connect", delay, 0, TRUE)}),
                                !.scheduled = Append(@, delay)]
                 ELSE IF d._retries = 0
                      THEN [Log(d, "Giving up") EXCEPT !.notices = @ + 1]
                      ELSE d
        IN  [e EXCEPT !._retries = @ - 1]

(***************************************************************************)
(* FlooProtocol.stop                                                       *)
(***************************************************************************)
stop(s) ==
    LET a == [s EXCEPT !.retries = <<-1>>]
        b == cancel_timeout(a)
        c == assign_reconnect_timeout(b, None)
    IN  [Log(cleanup(c), "Disconnected") EXCEPT !.stopped = TRUE]

(***************************************************************************)
(* FlooProtocol._connect: one staged attempt.  res is what the             *)
(* non-blocking connect answers: "ok" (no error, or already connected),    *)
(* "inprogress" (an errno of connect_errno) or "error".                    *)
(***************************************************************************)
\* _connect that polls for as long as the connect is in progress.
_connect_polls_forever(s, attempts, res) ==
    IF s._sock = None THEN Log(s, "_connect: No socket")
    ELSE IF res = "inprogress"
         THEN set_timeout(s, "_connect", CONNECT_POLL_MS, attempts + 1)
    ELSE IF res = "error" THEN reconnect(Log(s, "Error connecting"))
    ELSE [s EXCEPT !._sock = IF s._secure THEN "ssl" ELSE @,
                   !._q = <<>>,
                   !.reconnect_delay = <<INITIAL_RECONNECT_DELAY>>,
                   !.retries = <<MAX_RETRIES>>,
                   !.events = Append(@, <<"connect">>),
                   !.connected = TRUE]

\* _connect that keeps the queue across the connection attempt.
_connect_keeps_queue(s, attempts, res) ==
    IF attempts > MAX_CONNECT_ATTEMPTS
    THEN reconnect(Log(s, "Connection attempt timed out"))
    ELSE IF s._sock = None THEN Log(s, "_connect: No socket")
    ELSE IF res = "inprogress"
         THEN set_timeout(s, "_connect", CONNECT_POLL_MS, attempts + 1)
    ELSE IF res = "error" THEN reconnect(Log(s, "Error connecting"))
    ELSE [s EXCEPT !._sock = IF s._secure THEN "ssl" ELSE @,
                   !.reconnect_delay = <<INITIAL_RECONNECT_DELAY>>,
                   !.retries = <<MAX_RETRIES>>,
                   !.events = Append(@, <<"connect">>),
                   !.connected = TRUE]

_connect(s, attempts, res) ==
    IF attempts > MAX_CONNECT_ATTEMPTS
    THEN reconnect(Log(s, "Connection attempt timed out"))
    ELSE IF s._sock = None THEN Log(s, "_connect: No socket")
    ELSE IF res = "inprogress"
         THEN set_timeout(s, "_connect", CONNECT_POLL_MS, attempts + 1)
    ELSE IF res = "error" THEN reconnect(Log(s, "Error connecting"))
    ELSE [s EXCEPT !._sock = IF s._secure THEN "ssl" ELSE @,
                   !._q = <<>>,
                   !.reconnect_delay = <<INITIAL_RECONNECT_DELAY>>,
                   !.retries = <<MAX_RETRIES>>,
                   !.events = Append(@, <<"connect">>),
                   !.connected = TRUE]

(***************************************************************************)
(* FlooProtocol.start_proxy and FlooProtocol.connect.  proxyOk: the proxy  *)
(* printed its 'Now listening on <port>' line.                             *)
(***************************************************************************)
start_proxy(s, proxyOk) ==
    IF proxyOk
    THEN [s EXCEPT !._proc = "running", !._port = "proxyport"]
    ELSE [s EXCEPT !._proc = "running", !.exc = "Exception"]

connect(s, proxyOk, res) ==
    LET a == cancel_timeout(s)
        b == cleanup(assign_reconnect_timeout(a, None))
        c == [b EXCEPT !._empty_selects = <<0>>]
        d == IF c.proxy THEN start_proxy(c, proxyOk) ELSE c
    IN  IF d.exc # None THEN d
        ELSE _connect(Log([d EXCEPT !._sock = "plain"], "Connecting"), 0, res)

(***************************************************************************)
(* FlooProtocol._do_ssl_handshake.  hs is what do_handshake does on a      *)
(* wrapped socket: "ok", "want" (SSL_ERROR_WANT_READ/WRITE), "sslerror"    *)
(* (another SSLError) or "error" (another exception).  With no socket, or  *)
(* one that is not wrapped, do_handshake is an AttributeError.  Where the  *)
(* ssl module is missing (ssl is False), evaluating "except ssl.SSLError"  *)
(* for any raised exception is itself an AttributeError, which escapes.    *)
(* The result is <<state, returned value>>.                                *)
(***************************************************************************)
_do_ssl_handshake(s, hs) ==
    LET raised == IF s._sock = "ssl" THEN hs ELSE "error" IN
    IF raised = "ok"
    THEN <<[s EXCEPT !._needs_handshake = FALSE], TRUE>>
    ELSE IF ~s.ssl THEN <<[s EXCEPT !.exc = "AttributeError"], FALSE>>
    ELSE IF raised = "want" THEN <<s, FALSE>>
    ELSE IF raised = "sslerror" THEN <<reconnect(s), FALSE>>
    ELSE <<reconnect(Log(s, "Error in SSL handshake")), FALSE>>

(***************************************************************************)
(* FlooProtocol.write.  sendOk is the number of sendall calls that succeed *)
(* before one raises socket.error.  With no socket, sendall is an          *)
(* AttributeError.  Only IndexError (the empty queue) is caught.           *)
(***************************************************************************)
\* The drain with pop() for popleft(): the newest frame first.
Reverse(q) == [i \in 1..Len(q) |-> q[Len(q) + 1 - i]]

Drain_from_the_right(s, sendOk) ==
    LET q == Reverse(s._q) IN
    IF q = <<>> THEN s
    ELSE IF s._sock = None
         THEN [s EXCEPT !._q = Reverse(Tail(q)), !.exc = "AttributeError"]
    ELSE IF sendOk >= Len(q)
         THEN [s EXCEPT !._q = <<>>, !.sent = q]
    ELSE [s EXCEPT !._q = Reverse(SubSeq(q, sendOk + 2, Len(q))),
                   !.sent = SubSeq(q, 1, sendOk + 1),
                   !.exc = "socket.error"]

Drain(s, sendOk) ==
    LET q == s._q IN
    IF q = <<>> THEN s
    ELSE IF s._sock = None
         THEN [s EXCEPT !._q = Tail(q), !.exc = "AttributeError"]
    ELSE IF sendOk >= Len(q)
         THEN [s EXCEPT !._q = <<>>, !.sent = q]
    ELSE [s EXCEPT !._q = SubSeq(q, sendOk + 2, Len(q)),
                   !.sent = SubSeq(q, 1, sendOk + 1),
                   !.exc = "socket.error"]

\* write() that sends what is queued before it looks at the handshake.
write_sends_first(s, hs, sendOk) ==
    LET d == Drain(s, sendOk) IN
    IF d._needs_handshake THEN _do_ssl_handshake(d, hs)[1] ELSE d

write(s, hs, sendOk) ==
    IF s._needs_handshake
    THEN LET h == _do_ssl_handshake(s, hs) IN
         IF h[2] THEN Drain(h[1], sendOk) ELSE h[1]
    ELSE Drain(s, sendOk)

(***************************************************************************)
(* Text on the wire.  A byte of the model stands for a byte string that    *)
(* holds no newline:                                                       *)
(*   "lb" {    "rb" }    "a" "name": "a"    "r" "name": "room_info"        *)
(*   "e" "name": "a\n" with the newline escaped as JSON escapes it         *)
(*   "d" a digit    "x" a byte that is not valid UTF-8    "nl" the newline *)
(***************************************************************************)
Bytes == {"lb", "rb", "a", "r", "e", "d", "x", NL}

\* bytes.decode('utf-8', 'ignore'): the undecodable bytes are left out.
decode(b) == SelectSeq(b, LAMBDA c : c # "x")

\* json.loads: the parsed value, [kind |-> "error"] standing for ValueError.
loads(text) ==
    IF text = <<"lb", "rb">> THEN [kind |-> "object", name |-> None]
    ELSE IF Len(text) = 3 /\ text[1] = "lb" /\ text[3] = "rb"
            /\ text[2] \in {"a", "r", "e"}
         THEN [kind |-> "object",
               name |-> CASE text[2] = "a" -> "a"
                          [] text[2] = "r" -> "room_info"
                          [] text[2] = "e" -> "a+newline"]
    ELSE IF text # <<>> /\ \A i \in 1..Len(text) : text[i] = "d"
         THEN [kind |-> "number", name |-> None]
    ELSE [kind |-> "error", name |-> None]

\* json.dumps of a message: the newline in a string is escaped.
dumps(item) ==
    CASE item = "a" -> <<"lb", "a", "rb">>
      [] item = "room_info" -> <<"lb", "r", "rb">>
      [] item = "a+newline" -> <<"lb", "e", "rb">>
      [] OTHER -> <<"lb", "rb">>

\* bytes.partition(NEWLINE): the place of the first newline, 0 when none.
FirstNL(b) ==
    IF \E i \in 1..Len(b) : b[i] = NL
    THEN CHOOSE i \in 1..Len(b) : b[i] = NL /\ \A j \in 1..(i - 1) : b[j] # NL
    ELSE 0

(***************************************************************************)
(* FlooProtocol._handle.  faults: the names for which a "data" listener    *)
(* raises.  A frame with no name raises in msg.debug ("got data " + None)  *)
(* inside the same try.  A parsed value that is no object has no .get: the *)
(* AttributeError is outside both try blocks and escapes, the buffer not   *)
(* advanced.                                                               *)
(***************************************************************************)
RECURSIVE HandleLoop(_, _)
HandleLoop(s, faults) ==
    LET i == FirstNL(s._buf) IN
    IF i = 0 THEN s
    ELSE
        LET before == SubSeq(s._buf, 1, i - 1)
            after == SubSeq(s._buf, i + 1, Len(s._buf))
            data == loads(decode(before))
        IN  IF data.kind = "error"
            THEN HandleLoop([Log(s, "Unable to parse json") EXCEPT !._buf = after],
                            faults)
            ELSE IF data.kind # "object"
            THEN [s EXCEPT !.exc = "AttributeError"]
            ELSE
                LET name == data.name
                    e == [s EXCEPT !.events = Append(@, <<"data", name>>)]
                    raises == name \in faults \/ name = None
                    l == IF raises THEN Log(e, "Error handling event") ELSE e
                    f == IF raises /\ name = "room_info" THEN stop(l) ELSE l
                IN  HandleLoop([f EXCEPT !._buf = after], faults)

\* _handle that keeps only the newest chunk in the buffer.
_handle_forgets_buffer(s, data, faults) ==
    HandleLoop([s EXCEPT !._buf = data], faults)

_handle(s, data, faults) ==
    HandleLoop([s EXCEPT !._buf = @ \o data], faults)

(***************************************************************************)
(* FlooProtocol.read.  data is everything the recv loop collected before a *)
(* recv returned nothing or raised socket.error; with no socket the first  *)
(* recv is an AttributeError, answered by reconnect().                     *)
(***************************************************************************)
Receive(s, data, faults) ==
    IF s._sock = None THEN reconnect(s)
    ELSE IF data # <<>>
         THEN _handle([s EXCEPT !._empty_reads = 0], data, faults)
    ELSE LET a == [s EXCEPT !._empty_reads = @ + 1] IN
         IF a._empty_reads > EMPTY_READ_BUDGET_MS \div TICK_TIME
         THEN reconnect(Log(a, "No data from sock.recv()"))
         ELSE a

read(s, hs, data, faults) ==
    IF s._needs_handshake
    THEN LET h == _do_ssl_handshake(s, hs) IN
         IF h[2] THEN Receive(h[1], data, faults) ELSE h[1]
    ELSE Receive(s, data, faults)

(***************************************************************************)
(* FlooProtocol.put.  An item is a message, named by its name; the empty   *)
(* dict and None are the falsy items.                                      *)
(***************************************************************************)
Falsy == {"{}", None}

put(s, item) ==
    IF item \in Falsy THEN s
    ELSE LET q == Append(s._q, dumps(item) \o <<NL>>) IN
         [s EXCEPT !._q = q, !.ret = <<Len(q)>>]

(***************************************************************************)
(* FlooProtocol.fileno, FlooProtocol.fd_set, FlooProtocol.error            *)
(***************************************************************************)
fileno(s) == IF s._sock = None THEN None ELSE "fd"

\* fd_set without the early return of the pending handshake.
fd_set_falls_through(s) ==
    IF ~s.connected THEN [s EXCEPT !.fds = <<<<>>, <<>>, <<>>>>]
    ELSE IF s._needs_handshake
         THEN [s EXCEPT !.fds = <<<<fileno(s)>>, <<fileno(s)>>, <<fileno(s)>>>>]
    ELSE IF Len(s._q) > 0
         THEN [s EXCEPT !.fds = <<<<fileno(s)>>, <<fileno(s)>>, <<fileno(s)>>>>]
    ELSE [s EXCEPT !.fds = <<<<fileno(s)>>, <<>>, <<fileno(s)>>>>]

fd_set(s) ==
    IF ~s.connected THEN [s EXCEPT !.fds = <<<<>>, <<>>, <<>>>>]
    ELSE IF s._needs_handshake
         THEN [s EXCEPT !.fds = <<<<>>, <<fileno(s)>>, <<fileno(s)>>>>]
    ELSE IF Len(s._q) > 0
         THEN [s EXCEPT !.fds = <<<<fileno(s)>>, <<fileno(s)>>, <<fileno(s)>>>>]
    ELSE [s EXCEPT !.fds = <<<<fileno(s)>>, <<>>, <<fileno(s)>>>>]

error(s) == [s EXCEPT !.exc = "NotImplementedError"]

(***************************************************************************)
(* The host loop and the timer facility: what they call, and with what.    *)
(* Each action takes the limits of the part of the state space to explore  *)
(* (scope) and, where it has inputs of unbounded size, the set they are    *)
(* drawn from.                                                             *)
(***************************************************************************)
ConnectResults == {"ok", "inprogress", "error"}
HandshakeResults == {"ok", "want", "sslerror", "error"}
Names == {"a", "room_info"}

\* The inputs a call can tell apart: do_handshake answers only on a wrapped
\* socket, the proxy is started only where it is used, and a listener is
\* asked only about the names that arrive.
HandshakeInputs(s) ==
    IF s._needs_handshake /\ s._sock = "ssl" THEN HandshakeResults ELSE {"ok"}
ProxyResults(s) == IF s.proxy THEN BOOLEAN ELSE {TRUE}
NamesIn(data) ==
    {n \in Names : \E i \in 1..Len(data) :
        data[i] = (IF n = "a" THEN "a" ELSE "r")}

\* r is within the limits lim of the part of the state space explored.
Within(lim, r) ==
    /\ r._retries >= lim.retries
    /\ Len(r._q) <= lim.q
    /\ Len(r._buf) <= lim.buf
    /\ BagCardinality(r.timers) <= lim.timers
    /\ \A t \in BagToSet(r.timers) : t.attempts <= lim.polls
    /\ r._empty_reads <= EMPTY_READ_BUDGET_MS \div TICK_TIME + 1

Step(scope, name, r) ==
    /\ Within(scope, r)
    /\ Apply(r)
    /\ op' = name
    /\ UNCHANGED harness

\* The state is r, nothing called yet, the peer about to deliver w.
Is(r, w) ==
    /\ secure = r.secure /\ ssl = r.ssl /\ connected = r.connected
    /\ _needs_handshake = r._needs_handshake /\ _sock = r._sock
    /\ _q = r._q /\ _buf = r._buf
    /\ _reconnect_delay = r._reconnect_delay /\ _retries = r._retries
    /\ _empty_reads = r._empty_reads
    /\ _reconnect_timeout = r._reconnect_timeout /\ _port = r._port
    /\ _secure = r._secure /\ _proc = r._proc /\ proxy = r.proxy
    /\ retries = r.retries /\ reconnect_delay = r.reconnect_delay
    /\ _empty_selects = r._empty_selects /\ timers = r.timers
    /\ notices = r.notices /\ scheduled = r.scheduled
    /\ stopped = r.stopped /\ events = r.events /\ sent = r.sent
    /\ ret = r.ret /\ exc = r.exc /\ msgs = r.msgs /\ fds = r.fds
    /\ op = "__init__"
    /\ wire = w /\ fed = <<>> /\ log = <<>> /\ queued = <<>> /\ handed = <<>>

Configs == {<<TRUE, TRUE>>, <<FALSE, TRUE>>, <<TRUE, FALSE>>}

Init == \E cfg \in Configs : Is(__init__(cfg[1], cfg[2]), <<>>)

\* The host calls connect().
Connect(scope) ==
    \E proxyOk \in ProxyResults(Self), res \in ConnectResults :
        Step(scope, "connect",
             [connect(Self, proxyOk, res) EXCEPT !.stopped = FALSE])

\* A timer reconnect() set fires: the facility calls connect().
FireReconnect(scope) ==
    \E t \in BagToSet(timers), proxyOk \in ProxyResults(Self),
       res \in ConnectResults :
        /\ t.func = "connect"
        /\ Step(scope, "timer:connect",
                connect([Self EXCEPT !.timers = @ (-) SetToBag({t})],
                        proxyOk, res))

\* A timer _connect set fires: the facility calls _connect(attempts).
FirePoll(scope) ==
    \E t \in BagToSet(timers), res \in ConnectResults :
        /\ t.func = "_connect"
        /\ Step(scope, "timer:_connect",
                _connect([Self EXCEPT !.timers = @ (-) SetToBag({t})],
                         t.attempts, res))

FdSet(scope) == Step(scope, "fd_set", fd_set(Self))

Read(scope, Data) ==
    \E hs \in HandshakeInputs(Self), data \in Data,
       faults \in SUBSET Names :
        /\ data # <<>> => connected
        /\ faults \subseteq NamesIn(data)
        /\ Step(scope, "read", read(Self, hs, data, faults))

Write(scope) ==
    \E hs \in HandshakeInputs(Self), sendOk \in 0..Len(_q) :
        Step(scope, "write", write(Self, hs, sendOk))

Put(scope, Messages) ==
    \E item \in Messages : Step(scope, "put", put(Self, item))

Reconnect(scope) == Step(scope, "reconnect", reconnect(Self))

Stop(scope) == Step(scope, "stop", stop(Self))

Cleanup(scope) == Step(scope, "cleanup", cleanup(Self))

Error(scope) == Step(scope, "error", error(Self))

(***************************************************************************)
(* Spec: the transport through its first reconnects, with every call the   *)
(* host can make in every state.                                           *)
(***************************************************************************)
InScope ==
    [retries |-> MAX_RETRIES - MaxReconnects, q |-> MaxQueue, buf |-> MaxBuf,
     timers |-> MaxTimers, polls |-> MaxPolls]

\* What one read() receives.
RecvData == {<<>>, <<"lb", "r", "rb", NL>>, <<"d", NL>>, <<"lb">>}
Items == {"a", "{}"}

Next ==
    \/ Connect(InScope)
    \/ FireReconnect(InScope)
    \/ FirePoll(InScope)
    \/ FdSet(InScope)
    \/ Read(InScope, RecvData)
    \/ Write(InScope)
    \/ Put(InScope, Items)
    \/ Reconnect(InScope)
    \/ Stop(InScope)
    \/ Cleanup(InScope)
    \/ Error(InScope)

Spec == Init /\ [][Next]_vars

(***************************************************************************)
(* Properties of the lifecycle (checked under Spec).                       *)
(***************************************************************************)
\* The connect() callbacks pending in the timer facility.
ReconnectTimers ==
    LET pending == {t \in BagToSet(timers) : t.func = "connect"}
    IN  BagCardinality([t \in pending |-> timers[t]])

\* C1: once stop() has run (and until the host itself calls connect()), no
\* reconnect timer is pending, whatever timers fire and whatever read() and
\* write() callbacks run afterwards.
StopIsFinal == stopped => ReconnectTimers = 0

\* C3: at most one reconnect timer is outstanding, it is the one whose handle
\* _reconnect_timeout holds, and a reconnect() called while it is pending
\* changes nothing: no second timer, no cleanup, the delay and the retry
\* counter as they were.
OneReconnectTimer ==
    /\ [](/\ ReconnectTimers <= 1
          /\ ReconnectTimers = 1 <=> _reconnect_timeout # None)
    /\ [][(op' = "reconnect" /\ ReconnectTimers >= 1) =>
              UNCHANGED <<timers, _reconnect_timeout, _reconnect_delay,
                          _retries, scheduled, connected, _sock, _buf,
                          _needs_handshake, _proc, _q, notices>>]_vars

\* Two reconnect() calls in a row: the second found the timer of the first
\* pending, and did nothing.
SecondReconnectIgnored ==
    /\ op = "reconnect"
    /\ msgs = <<>>
    /\ ReconnectTimers = 1
    /\ Len(scheduled) = 1

\* C8: nothing the host loop or a timer calls lets an exception escape, but
\* connect() where the proxy fails to start, and error().
NoEscape ==
    \/ exc = None
    \/ op \in {"connect", "timer:connect"} /\ exc = "Exception"
    \/ op = "error"

\* C9: what fd_set declares in every state: nothing when not connected; the
\* errorable and writable sets while the handshake is pending; the errorable
\* and readable sets once it is done, and the writable set exactly when the
\* queue holds a frame.  The descriptor is the socket's, never None.
FdSetDeclares ==
    LET f == fd_set(Self).fds
        fd == <<"fd">>
    IN  /\ ~connected => f = <<<<>>, <<>>, <<>>>>
        /\ connected /\ _needs_handshake => f = <<<<>>, fd, fd>>
        /\ connected /\ ~_needs_handshake /\ _q # <<>> => f = <<fd, fd, fd>>
        /\ connected /\ ~_needs_handshake /\ _q = <<>> => f = <<fd, <<>>, fd>>
        /\ op = "fd_set" => fds = f

\* fd_set ran on a connection with the handshake pending, and on this one
\* with the handshake done and a frame queued.
FdSetOnBusyConnection ==
    /\ op = "fd_set"
    /\ connected /\ secure /\ ~_needs_handshake /\ _q # <<>>
    /\ fds = <<<<"fd">>, <<"fd">>, <<"fd">>>>

\* C10: after cleanup(), called directly or through stop(), the transport is
\* as a fresh disconnected one: not connected, no socket, _needs_handshake as
\* the secure flag, the inbound buffer empty and the outbound queue empty.
CleanupLeavesFresh ==
    op \in {"cleanup", "stop"} =>
        /\ ~connected
        /\ _sock = None
        /\ _needs_handshake = _secure
        /\ _buf = <<>>
        /\ _q = <<>>

(***************************************************************************)
(* SpecBudget: the transport through its whole retry budget and past it,   *)
(* the peer answering or failing as it likes, nothing queued or received.  *)
(***************************************************************************)
InBudgetScope ==
    [retries |-> 0 - (1 + ExtraReconnects), q |-> 0, buf |-> 0,
     timers |-> MaxPending, polls |-> MaxPolls]

NextBudget ==
    \/ Connect(InBudgetScope)
    \/ FireReconnect(InBudgetScope)
    \/ FirePoll(InBudgetScope)
    \/ Read(InBudgetScope, {<<>>})
    \/ Write(InBudgetScope)
    \/ Reconnect(InBudgetScope)
    \/ Stop(InBudgetScope)

SpecBudget == Init /\ [][NextBudget]_vars

\* C2: the 'giving up' notice is given once, by the reconnect() that finds
\* the budget used up, which is when MAX_RETRIES connect() calls have been
\* scheduled; before that none is given, and after it no reconnect() schedules
\* a connect().
GivesUpOnce ==
    /\ notices = (IF _retries < 0 THEN 1 ELSE 0)
    /\ Len(scheduled) = MAX_RETRIES - Max(_retries, 0)
    /\ _retries < 0 => ReconnectTimers = 0

\* The transport gave up, and a reconnect() after that took neither branch.
GaveUpAndStaysSo ==
    /\ notices = 1
    /\ Len(scheduled) = MAX_RETRIES
    /\ _retries < 0 - 1
    /\ msgs = <<>>
    /\ op \in {"reconnect", "read", "write"}

\* The delays min(10000, floor(1.5 * previous)) from a first one.
RECURSIVE BackoffFrom(_, _)
BackoffFrom(first, n) ==
    IF n = 1 THEN first
    ELSE Min(MAX_RECONNECT_DELAY, (3 * BackoffFrom(first, n - 1)) \div 2)

\* C4 as stated: the delays successive reconnect() calls use are 500, 750,
\* 1125, ...
BackoffStartsAtInitial ==
    \A i \in 1..Len(scheduled) :
        scheduled[i] = BackoffFrom(INITIAL_RECONNECT_DELAY, i)

\* C4, amended: the stored delay starts at 500 and each reconnect() first
\* multiplies it, so the delays used are 750, 1125, 1687, 2530, 3795, 5692,
\* 8538, 10000, 10000, ...: each min(10000, floor(1.5 * previous)), strictly
\* increasing until the cap and never above it.
BackoffSequence ==
    LET first == (3 * INITIAL_RECONNECT_DELAY) \div 2
        head == <<750, 1125, 1687, 2530, 3795, 5692, 8538, 10000>>
    IN  /\ \A i \in 1..Len(scheduled) :
               /\ scheduled[i] = BackoffFrom(first, i)
               /\ scheduled[i] <= MAX_RECONNECT_DELAY
               /\ i <= Len(head) => scheduled[i] = head[i]
               /\ i > Len(head) => scheduled[i] = MAX_RECONNECT_DELAY
        /\ \A i \in 1..(Len(scheduled) - 1) :
               \/ scheduled[i] < scheduled[i + 1]
               \/ scheduled[i] = MAX_RECONNECT_DELAY
                  /\ scheduled[i + 1] = MAX_RECONNECT_DELAY
        /\ _reconnect_delay =
               IF _retries = MAX_RETRIES THEN INITIAL_RECONNECT_DELAY
               ELSE BackoffFrom(first, MAX_RETRIES - _retries)

\* The delay has grown to the cap and the next reconnect() used the cap again.
BackoffReachedCap ==
    /\ Len(scheduled) >= 9
    /\ scheduled[8] = MAX_RECONNECT_DELAY
    /\ scheduled[9] = MAX_RECONNECT_DELAY
    /\ scheduled[7] < MAX_RECONNECT_DELAY

(***************************************************************************)
(* SpecQueue: put() and write() around connections, the harness keeping    *)
(* what was put and what reached sendall since the connection was made.    *)
(***************************************************************************)
Messages == {"a", "room_info", "a+newline"}

InQueueScope(r) ==
    /\ r._retries >= MAX_RETRIES - 1
    /\ Len(r._q) <= MaxPuts
    /\ BagCardinality(r.timers) <= 1
    /\ \A t \in BagToSet(r.timers) : t.attempts <= 1

QueueStep(name, r, put_, sent_) ==
    /\ InQueueScope(r)
    /\ Apply(r)
    /\ op' = name
    /\ IF <<"connect">> \in {r.events[i] : i \in 1..Len(r.events)}
       THEN queued' = <<>> /\ handed' = <<>>
       ELSE /\ queued' = queued \o put_
            /\ handed' = handed \o sent_
            /\ Len(queued') <= MaxPuts
    /\ UNCHANGED <<wire, fed, log>>

QConnect ==
    \E proxyOk \in ProxyResults(Self), res \in ConnectResults :
        LET r == [connect(Self, proxyOk, res) EXCEPT !.stopped = FALSE]
        IN  QueueStep("connect", r, <<>>, <<>>)

QPut ==
    \E item \in Messages \cup Falsy :
        LET r == put(Self, item)
        IN  QueueStep("put", r, IF item \in Falsy THEN <<>> ELSE <<item>>, <<>>)

QWrite ==
    \E hs \in HandshakeInputs(Self), sendOk \in 0..Len(_q) :
        LET r == write(Self, hs, sendOk)
        IN  QueueStep("write", r, <<>>, r.sent)

QCleanup == QueueStep("cleanup", cleanup(Self), <<>>, <<>>)

NextQueue == QConnect \/ QPut \/ QWrite \/ QCleanup

SpecQueue == Init /\ [][NextQueue]_vars

\* The message a frame carries: the frame without its last byte, parsed.
Carried(frame) == loads(decode(SubSeq(frame, 1, Len(frame) - 1))).name

\* C5: on an established connection the frames given to the socket, followed
\* by those still queued, are the messages put, in the order put, each once
\* and each ending in its only newline; a put that enqueues returns the
\* number of frames not yet given to the socket, and a put that returns
\* nothing leaves the queue as it was.
FifoFrames ==
    /\ [](connected =>
            LET frames == handed \o _q IN
            /\ Len(frames) = Len(queued)
            /\ \A i \in 1..Len(frames) :
                   /\ frames[i][Len(frames[i])] = NL
                   /\ \A j \in 1..(Len(frames[i]) - 1) : frames[i][j] # NL
                   /\ Carried(frames[i]) = queued[i]
            /\ op = "put" /\ ret # <<>> =>
                   ret = <<Len(queued) - Len(handed)>>)
    /\ [][op' = "put" /\ ret' = <<>> => _q' = _q]_vars

\* Frames were put, some written, another put and written after them, on one
\* connection, a send failing on the way.
QueueDrainedInOrder ==
    /\ connected
    /\ op = "write"
    /\ Len(handed) = MaxPuts
    /\ handed[1] # handed[2]
    /\ \E i \in 1..Len(handed) : Carried(handed[i]) = "a+newline"
    /\ Len(sent) = 1

(***************************************************************************)
(* SpecFrames: the peer writes frames on an established connection and     *)
(* read() receives them in chunks that end anywhere.  fed is every byte    *)
(* recv has returned on the connection and log every event emitted on it.  *)
(***************************************************************************)
ValidFrames == {<<"lb", "a", "rb">>, <<"lb", "r", "rb">>, <<"lb", "rb">>}

\* Text that is no JSON, an undecodable byte in a message, JSON that is no
\* object.
MalformedFrames == {<<"lb", "a">>, <<"lb", "x", "a", "rb">>, <<"d">>}

InFramesScope(r) ==
    /\ r._retries = MAX_RETRIES
    /\ r.timers = EmptyBag

\* The positions of the newlines of b, and the k-th of them.
NLs(b) == {i \in 1..Len(b) : b[i] = NL}
NthNL(b, k) == CHOOSE i \in NLs(b) : Cardinality({j \in NLs(b) : j < i}) = k - 1

FrameStep(name, r, wire_, fed_, log_) ==
    /\ InFramesScope(r)
    /\ Apply(r)
    /\ op' = name
    /\ wire' = wire_ /\ fed' = fed_ /\ log' = log_
    /\ UNCHANGED <<queued, handed>>

\* connect(): a new socket, nothing received on it yet.
FConnect ==
    \E proxyOk \in ProxyResults(Self), res \in ConnectResults :
        LET r == [connect(Self, proxyOk, res) EXCEPT !.stopped = FALSE]
        IN  FrameStep("connect", r, <<>>, <<>>, <<>>)

\* The peer writes one more frame.
Send ==
    \E f \in ValidFrames \cup MalformedFrames :
        /\ connected
        /\ Cardinality(NLs(fed \o wire)) < MaxFrames
        /\ wire' = wire \o f \o <<NL>>
        /\ UNCHANGED <<secure, ssl, connected, _needs_handshake, _sock, _q,
                       _buf, _reconnect_delay, _retries, _empty_reads,
                       _reconnect_timeout, _port, _secure, _proc, proxy,
                       retries, reconnect_delay, _empty_selects, timers,
                       notices, scheduled, stopped, op, events, sent, ret,
                       exc, msgs, fds, fed, log, queued, handed>>

\* read() on a readable socket: recv returns the first k bytes under way.
Feed ==
    \E k \in 1..Len(wire) :
        LET chunk == SubSeq(wire, 1, k)
            rest == SubSeq(wire, k + 1, Len(wire))
        IN  \E faults \in SUBSET NamesIn(_buf \o chunk) :
                LET r == read(Self, "ok", chunk, faults)
                IN  /\ connected /\ ~_needs_handshake
                    /\ FrameStep("read", r, rest, fed \o chunk,
                                 log \o r.events)

NextFrames == FConnect \/ Send \/ Feed

\* Framing is the same on a wrapped socket once the handshake is done: the
\* transport is constructed for a plain connection.
InitFrames == Is(__init__(FALSE, TRUE), <<>>)

SpecFrames == InitFrames /\ [][NextFrames]_vars

\* The complete frames of a byte stream, in order, and what follows the
\* last newline.
FramesOf(b) ==
    [k \in 1..Cardinality(NLs(b)) |->
        SubSeq(b, IF k = 1 THEN 1 ELSE NthNL(b, k - 1) + 1, NthNL(b, k) - 1)]
PartialOf(b) ==
    IF NLs(b) = {} THEN b
    ELSE SubSeq(b, NthNL(b, Cardinality(NLs(b))) + 1, Len(b))

\* The 'data' event of a valid frame.
EventOf(frame) ==
    <<"data", CASE frame = <<"lb", "a", "rb">> -> "a"
                [] frame = <<"lb", "r", "rb">> -> "room_info"
                [] OTHER -> None>>

\* C6: when the bytes received on a connection are N complete valid frames
\* followed by a partial frame, however they were cut into chunks, exactly
\* N 'data' events were emitted, those of the frames in the order received,
\* the inbound buffer is the partial frame, and read() raised nothing.
ExtractsFrames ==
    LET frames == FramesOf(fed) IN
    (\A k \in 1..Len(frames) : frames[k] \in ValidFrames) =>
        /\ log = [k \in 1..Len(frames) |-> EventOf(frames[k])]
        /\ _buf = PartialOf(fed)
        /\ op = "read" => exc = None

\* Valid frames have been received in several read() calls, the last of
\* which dispatched a frame and ended inside the next one, whose rest is
\* under way.
FramesAcrossChunks ==
    /\ op = "read"
    /\ Len(FramesOf(fed)) = MaxFrames - 1
    /\ \A k \in 1..(MaxFrames - 1) : FramesOf(fed)[k] \in ValidFrames
    /\ Len(log) = MaxFrames - 1
    /\ events # <<>>
    /\ Len(events) < Len(log)
    /\ log[1] # log[2]
    /\ _buf # <<>>
    /\ wire # <<>>

\* C7: a malformed frame received between two valid frames produces no
\* 'data' event and is passed over: both valid frames are dispatched, the
\* buffer holds only what follows the third newline, read() raises nothing
\* and the connection stays up unless a listener of room_info failed.
MalformedDropped ==
    LET frames == FramesOf(fed) IN
    (/\ op = "read"
     /\ Len(frames) = 3
     /\ frames[1] \in ValidFrames
     /\ frames[2] \in MalformedFrames
     /\ frames[3] \in ValidFrames) =>
        /\ log = <<EventOf(frames[1]), EventOf(frames[3])>>
        /\ _buf = PartialOf(fed)
        /\ exc = None
        /\ ~stopped => connected /\ _sock # None

(***************************************************************************)
(* More properties of the lifecycle (checked under Spec).                  *)
(***************************************************************************)
\* The calls that end in _connect.
ConnectOps == {"connect", "timer:connect", "timer:_connect"}

\* C11: when a connection attempt has succeeded, the delay and the retry
\* counter reconnect() works with are back at their initial values, 500 ms
\* and 20, so that the next reconnect() does what the first reconnect() of a
\* fresh transport does.
ConnectResetsBackoff ==
    (op \in ConnectOps /\ connected) =>
        /\ _reconnect_delay = INITIAL_RECONNECT_DELAY
        /\ _retries = MAX_RETRIES

(***************************************************************************)
(* SpecEnqueue: put() at any time, connections made at once, after a       *)
(* staged connect or after a reconnect, and write() when fd_set has        *)
(* declared the socket writeable, that is while connected.  log is what    *)
(* happened, in order: <<"put", item>>, <<"connect">> for the event and    *)
(* <<"sendall", frame>>.                                                   *)
(***************************************************************************)
EnqueueStep(name, r, happened) ==
    /\ InQueueScope(r)
    /\ Apply(r)
    /\ op' = name
    /\ log' = log \o happened
    /\ Len(log') <= MaxHistory
    /\ UNCHANGED <<wire, fed, queued, handed>>

EConnect ==
    \E proxyOk \in ProxyResults(Self), res \in ConnectResults :
        LET r == [connect(Self, proxyOk, res) EXCEPT !.stopped = FALSE]
        IN  EnqueueStep("connect", r, r.events)

EFireReconnect ==
    \E t \in BagToSet(timers), proxyOk \in ProxyResults(Self),
       res \in ConnectResults :
        /\ t.func = "connect"
        /\ LET r == connect([Self EXCEPT !.timers = @ (-) SetToBag({t})],
                            proxyOk, res)
           IN  EnqueueStep("timer:connect", r, r.events)

EFirePoll ==
    \E t \in BagToSet(timers), res \in ConnectResults :
        /\ t.func = "_connect"
        /\ LET r == _connect([Self EXCEPT !.timers = @ (-) SetToBag({t})],
                             t.attempts, res)
           IN  EnqueueStep("timer:_connect", r, r.events)

EPut ==
    \E item \in Names :
        EnqueueStep("put", put(Self, item), <<<<"put", item>>>>)

EWrite ==
    \E hs \in HandshakeInputs(Self), sendOk \in 0..Len(_q) :
        LET r == write(Self, hs, sendOk)
        IN  /\ connected
            /\ EnqueueStep("write", r,
                           [i \in 1..Len(r.sent) |-> <<"sendall", r.sent[i]>>])

NextEnqueue == EConnect \/ EFireReconnect \/ EFirePoll \/ EPut \/ EWrite

SpecEnqueue == Init /\ [][NextEnqueue]_vars

\* The places of log where h is the kind of what happened, after place c and
\* up to place i.
Since(h, c, i) == {j \in (c + 1)..i : log[j][1] = h}

\* The place of the last 'connect' event before place i, 0 when none.
LastConnect(i) ==
    IF Since("connect", 0, i) = {} THEN 0
    ELSE CHOOSE c \in Since("connect", 0, i) :
             \A d \in Since("connect", 0, i) : d <= c

\* C12: the outbound queue is empty when the 'connect' event is emitted, and
\* the k-th frame given to the socket after a 'connect' event carries the
\* k-th message put after that event: no message put before the connection
\* was established is sent on it, and none is sent twice.
SentOnlyWhatWasPutSince ==
    /\ [](\A i \in 1..Len(log) :
            log[i][1] = "sendall" =>
                LET c == LastConnect(i)
                    k == Cardinality(Since("sendall", c, i))
                    puts == Since("put", c, i)
                IN  /\ c > 0
                    /\ \E p \in puts :
                           /\ Cardinality({q \in puts : q <= p}) = k
                           /\ log[p][2] = Carried(log[i][2]))
    /\ [][\A i \in 1..Len(events') :
              events'[i] = <<"connect">> => _q' = <<>>]_vars

\* A message was put before the connection was established, another one
\* after the 'connect' event, and write() has sent the second alone.
PutBeforeConnectNotSent ==
    /\ op = "write"
    /\ Len(log) = 4
    /\ log[1][1] = "put"
    /\ log[2] = <<"connect">>
    /\ log[3][1] = "put"
    /\ log[4][1] = "sendall"
    /\ log[1][2] # log[3][2]
    /\ _q = <<>>

(***************************************************************************)
(* More properties of the lifecycle (checked under Spec): the handshake.   *)
(***************************************************************************)
\* C13: in every state, from construction on and in every configuration,
\* _needs_handshake is true only if the effective secure flag (_secure) is
\* true and the current socket has not completed a handshake, and every
\* cleanup() sets it back to the secure flag.
NeedsHandshakeOnlyIfSecure ==
    /\ _needs_handshake => _secure
    /\ op = "cleanup" => _needs_handshake = _secure

\* The number of callbacks to func pending in the timer facility.
Pending(func) ==
    BagCardinality([t \in {u \in BagToSet(timers) : u.func = func} |->
                       timers[t]])

\* C14: at most one reconnect timer and at most one staged connect-retry
\* timer are pending at any time, whatever the interleaving of connect(),
\* reconnect(), stop() and timer firings.
OneTimerOfEachKind ==
    /\ Pending("connect") <= 1
    /\ Pending("_connect") <= 1

(***************************************************************************)
(* SpecClose: the lifecycle of Spec, the peer closing connections as well. *)
(* recv returns nothing on a connection the peer has closed: read() leaves *)
(* its loop as it does when recv would block, with what it collected.      *)
(***************************************************************************)
ReadAtClose(scope, Data) ==
    \E data \in Data, faults \in SUBSET Names :
        /\ connected /\ ~_needs_handshake /\ _sock # None
        /\ faults \subseteq NamesIn(data)
        /\ Step(scope, "read at close", read(Self, "ok", data, faults))

NextClose == Next \/ ReadAtClose(InScope, RecvData)

SpecClose == Init /\ [][NextClose]_vars

\* C15: when a recv inside read() has returned nothing because the peer
\* closed the connection, the transport is torn down by reconnect() when
\* read() returns: no socket, not connected, and a reconnect timer pending
\* or the retry budget used up.
PeerCloseReconnects ==
    op = "read at close" =>
        /\ _sock = None
        /\ ~connected
        /\ Pending("connect") = 1 \/ _retries < 0

(***************************************************************************)
(* More properties of the lifecycle (checked under Spec): the handshake    *)
(* and the data.                                                           *)
(***************************************************************************)
\* C16: in every state where the handshake is pending, a write() or read()
\* whose handshake step does not complete (it would block, or it fails and
\* reconnect() is called) sends no frame, leaves the outbound queue as it
\* is, receives nothing and dispatches nothing; and a call that has sent or
\* dispatched a frame has found or made _needs_handshake false.
NoDataWhileHandshaking ==
    /\ _needs_handshake =>
         \A hs \in HandshakeResults :
             ~_do_ssl_handshake(Self, hs)[2] =>
                 /\ \A sendOk \in 0..Len(_q) :
                        LET w == write(Self, hs, sendOk) IN
                        w.sent = <<>> /\ w._q = _q /\ w.events = <<>>
                 /\ \A data \in RecvData, faults \in SUBSET Names :
                        LET r == read(Self, hs, data, faults) IN
                        /\ r.events = <<>> /\ r.sent = <<>> /\ r._q = _q
                        /\ r._empty_reads = _empty_reads
                        /\ r._buf \in {_buf, <<>>}
    /\ sent # <<>> => ~_needs_handshake
    /\ (op = "read" /\ events # <<>> /\ ~stopped) => ~_needs_handshake

\* write() has returned on a connection whose handshake wants more, a frame
\* waiting in the queue.
HandshakeLeftQueue ==
    /\ op = "write"
    /\ connected
    /\ _needs_handshake
    /\ _sock = "ssl"
    /\ _q # <<>>
    /\ sent = <<>>
    /\ exc = None

(***************************************************************************)
(* SpecListen: connections that carry several frames per read(), with      *)
(* listeners that may raise.  The host never calls stop() here: stopped    *)
(* says that the transport has stopped itself in _handle and the host has  *)
(* not called connect() since.                                             *)
(***************************************************************************)
ListenData ==
    {<<"lb", "a", "rb", NL>>,
     <<"lb", "a", "rb", NL, "lb", "r", "rb", NL>>,
     <<"lb", "r", "rb", NL, "lb", "a", "rb", NL>>}

NextListen ==
    \/ Connect(InScope)
    \/ FireReconnect(InScope)
    \/ FirePoll(InScope)
    \/ Read(InScope, ListenData \cup {<<>>})
    \/ Write(InScope)
    \/ Put(InScope, Items)

SpecListen == Init /\ [][NextListen]_vars

\* C17: when a listener of room_info has raised, the transport is stopped:
\* disconnected, without socket, and with no reconnect timer pending then or
\* later; when only listeners of other names have raised in a read(), the
\* transport is connected as before, no reconnect timer is pending and
\* every frame received has been extracted.
ListenerFailure ==
    /\ stopped =>
         /\ ~connected
         /\ _sock = None
         /\ Pending("connect") = 0
    /\ (op = "read" /\ ~stopped /\ msgs # <<>> /\ events # <<>>) =>
         /\ connected
         /\ _sock # None
         /\ Pending("connect") = 0
         /\ exc = None
         /\ _buf = <<>>

(***************************************************************************)
(* SpecUnreachable: the host calls connect() once and then nothing; the    *)
(* peer is never reachable, every socket connect staying in progress or    *)
(* failing; the timer facility fires every callback it holds.  The staged  *)
(* polls and the retry budget are followed to their ends.                  *)
(***************************************************************************)
Unreachable == {"inprogress", "error"}

InUnreachableScope ==
    [retries |-> 0 - 1, q |-> 0, buf |-> 0, timers |-> 1,
     polls |-> MAX_CONNECT_ATTEMPTS + 2]

UConnect ==
    \E proxyOk \in ProxyResults(Self), res \in Unreachable :
        /\ op = "__init__"
        /\ Step(InUnreachableScope, "connect", connect(Self, proxyOk, res))

UFireReconnect ==
    \E t \in BagToSet(timers), proxyOk \in ProxyResults(Self),
       res \in Unreachable :
        /\ t.func = "connect"
        /\ Step(InUnreachableScope, "timer:connect",
                connect([Self EXCEPT !.timers = @ (-) SetToBag({t})],
                        proxyOk, res))

UFirePoll ==
    \E t \in BagToSet(timers), res \in Unreachable :
        /\ t.func = "_connect"
        /\ Step(InUnreachableScope, "timer:_connect",
                _connect([Self EXCEPT !.timers = @ (-) SetToBag({t})],
                         t.attempts, res))

NextUnreachable == UConnect \/ UFireReconnect \/ UFirePoll

\* Constructed with the default secure = True, the ssl module there or not:
\* a plain transport connects as the first of the two does.
InitUnreachable ==
    \E haveSsl \in BOOLEAN : Is(__init__(TRUE, haveSsl), <<>>)

SpecUnreachable ==
    InitUnreachable /\ [][NextUnreachable]_vars /\ WF_vars(NextUnreachable)

\* C18: with a peer that is never reachable, no connection attempt polls
\* more than 500 + 1 times, reconnect() schedules at most 20 connect()
\* calls, and the transport ends disconnected, without socket, no timer
\* pending, for good.
GivesUpEventually ==
    /\ [](/\ \A t \in BagToSet(timers) : t.attempts <= MAX_CONNECT_ATTEMPTS + 1
          /\ Len(scheduled) <= MAX_RETRIES)
    /\ <>[](~connected /\ _sock = None /\ timers = EmptyBag)

\* The last attempt polled to its end, and the transport gave up.
PolledOutAndGaveUp ==
    /\ op = "timer:_connect"
    /\ msgs = <<"Connection attempt timed out", "Giving up">>
    /\ Len(scheduled) = MAX_RETRIES
    /\ notices = 1
    /\ timers = EmptyBag

(***************************************************************************)
(* More properties of the lifecycle (checked under Spec): dead-connection  *)
(* detection.                                                              *)
(***************************************************************************)
\* C19: the empty-read count is zero when a connection has been established,
\* so that only empty reads of the current connection count towards
\* declaring it dead, and it is zero after a read() that received bytes.
EmptyReadsOfThisConnection ==
    /\ (op \in ConnectOps /\ connected) => _empty_reads = 0
    /\ (op = "read" /\ events # <<>>) => _empty_reads = 0

(***************************************************************************)
(* More properties of the frames (checked under SpecFrames): the transport *)
(* stopping itself.                                                        *)
(***************************************************************************)
\* C20: when the transport has stopped itself in a read() (a listener of
\* room_info raised, stop() said 'Disconnected'), the room_info frame is the
\* last one that read() dispatched, and the inbound buffer is empty when
\* read() returns.
ExtractionEndsAtStop ==
    (op = "read" /\ \E i \in 1..Len(msgs) : msgs[i] = "Disconnected") =>
        /\ \A i \in 1..Len(events) :
               events[i] = <<"data", "room_info">> => i = Len(events)
        /\ _buf = <<>>
====
